---------------------------- MODULE Spec2Model ----------------------------
(* zflock: advisory locking of ZFS filesystems with flock(2) on a parallel  *)
(* directory tree (src/src/zfstools/zflock.py).                             *)
(*                                                                          *)
(* The model is a set of independently invoked zflock processes sharing one *)
(* file system.  Every action is one system call of one process (or the     *)
(* process-local code around it); processes interleave freely.              *)
(*                                                                          *)
(* A path string is a sequence of tokens: "/" or a path component.  A       *)
(* directory of the file system is the sequence of components the kernel    *)
(* resolves a path string to.  A directory object (inode) is a pair of the  *)
(* directory it was created at and the number of the creation: rmdir        *)
(* followed by mkdir of the same name gives a new object, and flock locks   *)
(* belong to the object a descriptor was opened on, not to the name.        *)
EXTENDS Integers, Sequences, FiniteSets, TLC

\* ---------------------------------------------------------------- bounds

\* Number of zflock invocations (processes) in one behaviour.
NProcs == 3

Procs == 1..NProcs

\* Longest filesystem argument, in tokens, that lockpath_for is tried on.
MaxLen == 3

\* ------------------------------------------------------- path strings

LOCKDIR == <<"/", "var", "/", "lib", "/", "zfs-tools", "/", "zflock">>

\* os.path.isabs
isabs(s) == Len(s) > 0 /\ s[1] = "/"

\* os.path.join of two path strings
join(a, b) ==
    IF isabs(b) THEN b
    ELSE IF a = <<>> \/ a[Len(a)] = "/" THEN a \o b
    ELSE a \o <<"/">> \o b

\* lockpath_for, for a filesystem it does not die on
lockpath_for(filesystem) == join(LOCKDIR, filesystem)

\* A lockpath_for that never dies (what lockpath_for is not).
NeverDies(filesystem) == FALSE

\* lockpath_for's test for die()
lockpath_dies(filesystem) == isabs(filesystem)

readme_for(lockpath) == join(lockpath, <<"README">>)

\* The kernel's resolution of an absolute path string to the sequence of its
\* components: empty components and "." are skipped, ".." steps up.
RECURSIVE ResolveFrom(_, _)
ResolveFrom(acc, s) ==
    IF s = <<>> THEN acc
    ELSE LET t == Head(s)
             next == IF t = "/" \/ t = "." THEN acc
                     ELSE IF t = ".." THEN (IF acc = <<>> THEN acc
                                            ELSE SubSeq(acc, 1, Len(acc) - 1))
                     ELSE Append(acc, t)
         IN  ResolveFrom(next, Tail(s))

Resolve(s) == ResolveFrom(<<>>, s)

Root == Resolve(LOCKDIR)

\* Components as a relative path string: joined with "/".
RECURSIVE Joined(_)
Joined(c) ==
    IF Len(c) <= 1 THEN c ELSE <<Head(c), "/">> \o Joined(Tail(c))

\* os.path.relpath(path, start) for a path at or below start: the
\* components below start ("." for start itself).
relpath(path, start) ==
    LET d == Resolve(path)
        r == Resolve(start)
    IN  IF d = r THEN <<".">> ELSE Joined(SubSeq(d, Len(r) + 1, Len(d)))

IsPrefix(a, b) == Len(a) <= Len(b) /\ SubSeq(b, 1, Len(a)) = a

Parent(d) == SubSeq(d, 1, Len(d) - 1)

\* ------------------------------------------------------------- inputs

\* Filesystem arguments tried: the root itself, a directory, a nested
\* directory, and an absolute path.
Identifiers ==
    { <<".">>, <<"a">>, <<"a", "/", "b">>, <<"/", "a">> }

NoComment == <<>>

\* Values of --comment tried (optparse's default None is NoComment).
Comments == { NoComment, <<"n">> }

\* sys.argv after option parsing: the program name, then the positionals
\* (every word a token sequence): none, a filesystem alone, or a filesystem
\* and a one-word command.
ArgLists ==
    { << <<"zflock">> >>, << <<"zflock">>, <<"a">> >> }
    \cup { << <<"zflock">>, f, <<"cmd">> >> : f \in Identifiers }

\* The invocations tried: --list and --gc with and without a stray
\* positional, every ArgLists without --comment, and a filesystem and
\* command with every value of --comment.
Invocations ==
    { [list |-> l, gc |-> ~l, comment |-> NoComment, args |-> a] :
        l \in BOOLEAN, a \in { << <<"zflock">> >>, << <<"zflock">>, <<"a">> >> } }
    \cup { [list |-> FALSE, gc |-> FALSE, comment |-> NoComment, args |-> a] :
             a \in ArgLists }
    \cup { [list |-> FALSE, gc |-> FALSE, comment |-> c,
            args |-> << <<"zflock">>, <<"a">>, <<"cmd">> >>] : c \in Comments }

\* The directories that can exist: every lock path and its ancestors down
\* to the lock-tree root.  The root's own ancestors always exist.
Dirs ==
    { d \in UNION { { SubSeq(Resolve(lockpath_for(f)), 1, n) :
                        n \in Len(Root)..Len(Resolve(lockpath_for(f))) } :
                    f \in { g \in Identifiers : ~lockpath_dies(g) } } :
      IsPrefix(Root, d) }

Children(d) == { e \in Dirs : Len(e) = Len(d) + 1 /\ IsPrefix(d, e) }

\* ------------------------------------------------------------- state

NoFd == [dir |-> <<>>, gen |-> 0]
NoFile == <<"<absent>">>
NoSeen == [held |-> FALSE, bare |-> FALSE]
NoInv == [list |-> FALSE, gc |-> FALSE, comment |-> NoComment, args |-> <<>>]

VARIABLES
    tree,      \* tree[d]: the directory object linked at d (0: none)
    readme,    \* readme[d]: content of d/README, or NoFile
    pc,        \* pc[p]: where process p is
    inv,       \* inv[p]: options and args of process p
    fd,        \* fd[p]: the directory object descriptor x is open on
    flocked,   \* flocked[p]: x's open file description holds the flock
    ok,        \* ok[p]: the variable ok of main / lock_and_run
    lvl,       \* lvl[p]: makedirs: length of the next directory to mkdir
    stack,     \* stack[p]: os.walk's frames
    wopen,     \* wopen[p]: p has the README open for writing, still linked
    spawned,   \* spawned[p]: subprocess.call started the command
    out,       \* out[p]: lines printed on stdout
    err,       \* err[p]: failures printed on stderr
    status,    \* status[p]: exit status (-1: not exited)
    seen,      \* history: what held of the entry when scanner p probed it
    since      \* history: the lock_and_run holders when list_locks p began

vars == <<tree, readme, pc, inv, fd, flocked, ok, lvl, stack,
          wopen, spawned, out, err, status, seen, since>>

fsvars == <<tree, readme>>

\* The lock tree outlives the processes: a behaviour starts either before
\* the first zflock ever ran (no directory yet) or with the directories
\* earlier runs left behind.
Init ==
    /\ tree \in { [d \in Dirs |-> 0], [d \in Dirs |-> 1] }
    /\ readme = [d \in Dirs |-> NoFile]
    /\ pc = [p \in Procs |-> "idle"]
    /\ inv = [p \in Procs |-> NoInv]
    /\ fd = [p \in Procs |-> NoFd]
    /\ flocked = [p \in Procs |-> FALSE]
    /\ ok = [p \in Procs |-> FALSE]
    /\ lvl = [p \in Procs |-> 0]
    /\ stack = [p \in Procs |-> <<>>]
    /\ wopen = [p \in Procs |-> FALSE]
    /\ spawned = [p \in Procs |-> FALSE]
    /\ out = [p \in Procs |-> <<>>]
    /\ err = [p \in Procs |-> <<>>]
    /\ status = [p \in Procs |-> -1]
    /\ seen = [p \in Procs |-> NoSeen]
    /\ since = [p \in Procs |-> {}]

\* ------------------------------------------------------- file system

Exists(d) == d \in Dirs /\ tree[d] # 0

\* The directory object path string s names now (NoFd: none).
Lookup(s) ==
    LET d == Resolve(s)
    IN  IF Exists(d) THEN [dir |-> d, gen |-> tree[d]] ELSE NoFd

\* The number mkdir gives a new directory object at d: one that names no
\* object a descriptor is still open on (which object gets which number is
\* immaterial; only equality of objects is ever asked).
NewObject(d) ==
    CHOOSE n \in 1..(NProcs + 1) :
        /\ \A q \in Procs : fd[q] # [dir |-> d, gen |-> n]
        /\ \A m \in 1..(n - 1) : \E q \in Procs : fd[q] = [dir |-> d, gen |-> m]

\* A flock that never conflicts (what flock is not).
NeverContended(p) == FALSE

\* flock(x, LOCK_EX | LOCK_NB) by p fails iff another open file description
\* holds a lock on the same directory object.
Contended(p) ==
    \E q \in Procs \ {p} : flocked[q] /\ fd[q] = fd[p]

\* rmdir's condition: the directory exists and holds no entry.
Empty(d) ==
    /\ readme[d] = NoFile
    /\ \A e \in Children(d) : ~Exists(e)

NL == "\n"

RECURSIVE rstrip(_)
rstrip(s) ==
    IF s # <<>> /\ s[Len(s)] = NL THEN rstrip(SubSeq(s, 1, Len(s) - 1)) ELSE s

\* readme_comment: the file at path string readme (a README of a lock
\* directory) as read now, with the prefix, or the empty string when it
\* cannot be opened.
readme_comment(readme_, prefix) ==
    LET d == Parent(Resolve(readme_))
    IN  IF Exists(d) /\ readme[d] # NoFile THEN prefix \o rstrip(readme[d])
        ELSE <<>>

\* A line of print_failure on stderr: the message, and the README comment
\* formatted into it.
Failure(message, comment) == [msg |-> message, comment |-> comment]

\* A line on stdout: list_locks' "%s%s" of filesystem and README comment,
\* or the usage text.
Line(text, comment) == [text |-> text, comment |-> comment]

Usage == Line(<<"usage">>, <<>>)

\* The filesystem and the lock path of a lock_and_run process.
filesystem(p) == inv[p].args[2]
lockdir(p) == Resolve(lockpath_for(filesystem(p)))

\* ------------------------------------------------------------- main

\* makedirs' walk up the path: the length of the first directory it will
\* mkdir, one below the deepest proper ancestor of d that exists (the
\* lock-tree root's own parent always exists).
FirstToMake(d) ==
    LET have == { n \in Len(Root)..(Len(d) - 1) : Exists(SubSeq(d, 1, n)) }
    IN  IF have = {} THEN Len(Root)
        ELSE (CHOOSE n \in have : \A m \in have : m <= n) + 1

\* sys.exit: the kernel closes the process's descriptors, and with them
\* goes any flock.  Of an exited process the exit status and what it printed
\* remain, and the command line keep of it (NoInv once an operation ran).
Exit(p, code, keep) ==
    /\ status' = [status EXCEPT ![p] = code]
    /\ pc' = [pc EXCEPT ![p] = "exited"]
    /\ fd' = [fd EXCEPT ![p] = NoFd]
    /\ flocked' = [flocked EXCEPT ![p] = FALSE]
    /\ inv' = [inv EXCEPT ![p] = keep]
    /\ lvl' = [lvl EXCEPT ![p] = 0]
    /\ stack' = [stack EXCEPT ![p] = <<>>]
    /\ seen' = [seen EXCEPT ![p] = NoSeen]
    /\ since' = [since EXCEPT ![p] = {}]

\* A process running lock_and_run.
IsLocker(p) ==
    /\ pc[p] \notin {"idle", "exited"}
    /\ ~inv[p].list /\ ~inv[p].gc /\ Len(inv[p].args) >= 3

\* The lock_and_run processes that hold a flock now.
Holders == { q \in Procs : IsLocker(q) /\ flocked[q] }

\* main, up to the first system call of the operation it dispatches to:
\* the walk of list_locks / gc_locks, or lockpath_for and makedirs' look up
\* the path of lock_and_run.  Processes are interchangeable, so they are
\* started in the order of their numbers.
Main(p) ==
    /\ pc[p] = "idle"
    /\ \A q \in Procs : q < p => pc[q] # "idle"
    /\ \E i \in Invocations :
           IF i.list \/ i.gc
           THEN IF Len(i.args) = 1
                THEN \* list_locks / gc_locks: os.walk(LOCKDIR) begins
                     /\ inv' = [inv EXCEPT ![p] = i]
                     /\ pc' = [pc EXCEPT ![p] = "listdir"]
                     /\ since' = [since EXCEPT ![p] = IF i.list THEN Holders ELSE {}]
                     /\ UNCHANGED <<status, fd, flocked, err, out, lvl, stack, ok, seen>>
                ELSE \* ok stays False: sys.exit(1)
                     /\ Exit(p, 1, i)
                     /\ UNCHANGED <<err, out, ok>>
           ELSE IF Len(i.args) >= 3
                THEN IF lockpath_dies(i.args[2])
                     THEN \* lockpath_for: die
                          /\ err' = [err EXCEPT ![p] =
                                       Append(@, Failure("invalid filesystem", <<>>))]
                          /\ Exit(p, 1, i)
                          /\ UNCHANGED <<out, ok>>
                     ELSE \* lock_and_run: ok = True, makedirs begins
                          /\ inv' = [inv EXCEPT ![p] = i]
                          /\ ok' = [ok EXCEPT ![p] = TRUE]
                          /\ lvl' = [lvl EXCEPT ![p] =
                                       FirstToMake(Resolve(lockpath_for(i.args[2])))]
                          /\ pc' = [pc EXCEPT ![p] = "makedirs"]
                          /\ UNCHANGED <<status, fd, flocked, err, out, stack, seen, since>>
                ELSE \* parser.print_usage(); ok = True; no sys.exit(1)
                     /\ out' = [out EXCEPT ![p] = Append(@, Usage)]
                     /\ ok' = [ok EXCEPT ![p] = TRUE]
                     /\ Exit(p, 0, i)
                     /\ UNCHANGED err
    /\ UNCHANGED <<fsvars, wopen, spawned>>

\* main's handler of an exception of the operation: report and sys.exit(1).
MainExcept(p) ==
    /\ pc[p] = "except"
    /\ err' = [err EXCEPT ![p] = Append(@, Failure("failed with exception", <<>>))]
    /\ Exit(p, 1, NoInv)
    /\ UNCHANGED <<fsvars, ok, wopen, spawned, out>>

\* A main that ignores what the operation returned (what main is not).
MainExitZero(p) ==
    /\ pc[p] = "returned"
    /\ Exit(p, 0, NoInv)
    /\ UNCHANGED <<fsvars, ok, wopen, spawned, out, err>>

\* main after the operation returned ok: sys.exit(1) if not ok.
MainExit(p) ==
    /\ pc[p] = "returned"
    /\ Exit(p, IF ok[p] THEN 0 ELSE 1, NoInv)
    /\ UNCHANGED <<fsvars, ok, wopen, spawned, out, err>>

\* ------------------------------------------------------ lock_and_run

\* A mkdir that puts a new directory in the place of one that is there
\* (what mkdir does not do).
MkdirAnew(p) ==
    /\ pc[p] = "makedirs"
    /\ LET d == SubSeq(lockdir(p), 1, lvl[p])
       IN  /\ tree' = [tree EXCEPT ![d] = NewObject(d)]
           /\ IF lvl[p] >= Len(lockdir(p))
              THEN /\ pc' = [pc EXCEPT ![p] = "open"]
                   /\ lvl' = [lvl EXCEPT ![p] = 0]
              ELSE /\ lvl' = [lvl EXCEPT ![p] = @ + 1]
                   /\ UNCHANGED pc
    /\ UNCHANGED <<readme, inv, fd, flocked, ok, stack, wopen, spawned, out, err, status,
                   seen, since>>

\* One mkdir of os.makedirs(lockpath).  ENOENT (the parent is gone) ends
\* makedirs with an error, which lock_and_run swallows, as it does EEXIST on
\* the last directory; makedirs itself passes over EEXIST on an ancestor.
Mkdir(p) ==
    /\ pc[p] = "makedirs"
    /\ LET d == SubSeq(lockdir(p), 1, lvl[p])
           last == lvl[p] >= Len(lockdir(p))
       IN  IF d # Root /\ ~Exists(Parent(d))
           THEN /\ pc' = [pc EXCEPT ![p] = "open"]
                /\ lvl' = [lvl EXCEPT ![p] = 0]
                /\ UNCHANGED fsvars
           ELSE /\ IF Exists(d)
                   THEN UNCHANGED fsvars
                   ELSE /\ tree' = [tree EXCEPT ![d] = NewObject(d)]
                        /\ UNCHANGED readme
                /\ IF last
                   THEN /\ pc' = [pc EXCEPT ![p] = "open"]
                        /\ lvl' = [lvl EXCEPT ![p] = 0]
                   ELSE /\ lvl' = [lvl EXCEPT ![p] = @ + 1]
                        /\ UNCHANGED pc
    /\ UNCHANGED <<inv, fd, flocked, ok, stack, wopen, spawned, out, err, status, seen, since>>

\* x = os.open(lockpath, os.O_RDONLY): raises OSError, which nothing in
\* lock_and_run catches, when the directory is not there.
Open(p) ==
    /\ pc[p] = "open"
    /\ LET x == Lookup(lockpath_for(filesystem(p)))
       IN  IF x = NoFd
           THEN /\ pc' = [pc EXCEPT ![p] = "except"]
                /\ UNCHANGED fd
           ELSE /\ fd' = [fd EXCEPT ![p] = x]
                /\ pc' = [pc EXCEPT ![p] = "flock"]
    /\ UNCHANGED <<fsvars, inv, flocked, ok, lvl, stack, wopen, spawned, out, err, status, seen, since>>

\* fcntl.flock(x, LOCK_EX | LOCK_NB)
Flock(p) ==
    /\ pc[p] = "flock"
    /\ IF Contended(p)
       THEN /\ pc' = [pc EXCEPT ![p] = "contention"]
            /\ UNCHANGED flocked
       ELSE /\ flocked' = [flocked EXCEPT ![p] = TRUE]
            /\ pc' = [pc EXCEPT ![p] =
                        IF inv[p].comment # NoComment THEN "readme" ELSE "call"]
    /\ UNCHANGED <<fsvars, inv, fd, ok, lvl, stack, wopen, spawned, out, err, status, seen, since>>

\* A return that leaves x open (what lock_and_run does not do).
ReturnWithoutClose(p) ==
    /\ pc' = [pc EXCEPT ![p] = "returned"]
    /\ UNCHANGED <<fd, flocked>>

\* os.close(x), which releases the flock; return ok.  It follows steps of
\* the process alone, and is taken with them.
Close(p) ==
    /\ fd' = [fd EXCEPT ![p] = NoFd]
    /\ flocked' = [flocked EXCEPT ![p] = FALSE]
    /\ pc' = [pc EXCEPT ![p] = "returned"]

\* except IOError: print_failure("failed to lock ..." with the README read
\* now); ok = False; os.close(x); return ok
Contention(p) ==
    /\ pc[p] = "contention"
    /\ err' = [err EXCEPT ![p] =
                 Append(@, Failure("failed to lock",
                     readme_comment(readme_for(lockpath_for(filesystem(p))), <<" # ">>)))]
    /\ ok' = [ok EXCEPT ![p] = FALSE]
    /\ Close(p)
    /\ UNCHANGED <<fsvars, inv, lvl, stack, wopen, spawned, out, status, seen, since>>

\* A failed README write after which the command is run all the same (what
\* lock_and_run does not do).
WriteFailedRunsCommand(p) ==
    /\ err' = [err EXCEPT ![p] = Append(@, Failure("failed to write README", <<>>))]
    /\ ok' = [ok EXCEPT ![p] = FALSE]
    /\ pc' = [pc EXCEPT ![p] = "call"]
    /\ UNCHANGED <<fd, flocked>>

\* print_failure("failed to write README ..."); ok = False; os.close(x);
\* return ok
WriteFailed(p) ==
    /\ err' = [err EXCEPT ![p] = Append(@, Failure("failed to write README", <<>>))]
    /\ ok' = [ok EXCEPT ![p] = FALSE]
    /\ Close(p)

\* open(readme, "w"): creates or truncates the README of the directory the
\* path names now; fails when that directory is gone, or on an I/O error.
OpenReadme(p) ==
    /\ pc[p] = "readme"
    /\ LET d == lockdir(p)
       IN  \/ /\ Exists(d)
              /\ readme' = [readme EXCEPT ![d] = <<>>]
              /\ wopen' = [wopen EXCEPT ![p] = TRUE]
              /\ pc' = [pc EXCEPT ![p] = "write"]
              /\ UNCHANGED <<err, ok, fd, flocked>>
           \/ /\ WriteFailed(p)
              /\ UNCHANGED <<readme, wopen>>
    /\ UNCHANGED <<tree, inv, lvl, stack, spawned, out, status, seen, since>>

\* f.write("%s\n" % options.comment) and the close that flushes it, into
\* the file opened (no longer the README if gc_locks removed it meanwhile),
\* or an I/O error.
WriteReadme(p) ==
    /\ pc[p] = "write"
    /\ LET d == lockdir(p)
       IN  \/ /\ readme' = IF wopen[p]
                            THEN [readme EXCEPT ![d] = inv[p].comment \o <<NL>>]
                            ELSE readme
              /\ pc' = [pc EXCEPT ![p] = "call"]
              /\ UNCHANGED <<err, ok, fd, flocked>>
           \/ /\ WriteFailed(p)
              /\ UNCHANGED readme
    /\ wopen' = [wopen EXCEPT ![p] = FALSE]
    /\ UNCHANGED <<tree, inv, lvl, stack, spawned, out, status, seen, since>>

\* subprocess.call(command) starts the command, or raises OSError (no such
\* command), which nothing in lock_and_run catches.
Call(p) ==
    /\ pc[p] = "call"
    /\ \/ /\ spawned' = [spawned EXCEPT ![p] = TRUE]
          /\ pc' = [pc EXCEPT ![p] = "wait"]
       \/ /\ pc' = [pc EXCEPT ![p] = "except"]
          /\ UNCHANGED spawned
    /\ UNCHANGED <<fsvars, inv, fd, flocked, ok, lvl, stack, wopen, out, err, status, seen, since>>

\* The command ends; ok = subprocess.call(command) == 0, and the failure
\* message when it is not; os.close(x); return ok
Wait(p) ==
    /\ pc[p] = "wait"
    /\ \E rc \in {0, 1} :
        /\ ok' = [ok EXCEPT ![p] = (rc = 0)]
        /\ err' = IF rc = 0 THEN err
                  ELSE [err EXCEPT ![p] = Append(@, Failure("non-zero exit status", <<>>))]
    /\ Close(p)
    /\ UNCHANGED <<fsvars, inv, lvl, stack, wopen, spawned, out, status, seen, since>>

lock_and_run(p) ==
    \/ Mkdir(p)
    \/ Open(p)
    \/ Flock(p)
    \/ Contention(p)
    \/ OpenReadme(p)
    \/ WriteReadme(p)
    \/ Call(p)
    \/ Wait(p)

\* ------------------------------------------- list_locks and gc_locks

\* A frame of os.walk: the directory listed, the names of its
\* subdirectories as listed then, whether the caller's loop body is being
\* run over them (or walk is descending into them), and the index reached.
Frame(d, names, body) == [dirpath |-> d, dirnames |-> names, body |-> body, i |-> 1]

\* Every order listdir can give the names of a set in.
RECURSIVE Orders(_)
Orders(S) ==
    IF S = {} THEN { <<>> }
    ELSE UNION { { <<x>> \o t : t \in Orders(S \ {x}) } : x \in S }

\* The walk with the entry (or subdirectory) at hand done.
Advance(st) ==
    IF st = <<>> THEN st
    ELSE [st EXCEPT ![Len(st)] = [@ EXCEPT !.i = @ + 1]]

\* Where the walk stands next: at a loop body entry to probe ("probe"), at
\* a subdirectory to list ("listdir"), or at its end ("return").  topdown
\* yields a directory before descending into it, bottom-up after.
RECURSIVE Norm(_, _)
Norm(st, topdown) ==
    IF st = <<>> THEN [stack |-> st, pc |-> "return"]
    ELSE LET f == st[Len(st)]
             rest == SubSeq(st, 1, Len(st) - 1)
         IN  IF f.i <= Len(f.dirnames)
             THEN [stack |-> st, pc |-> IF f.body THEN "probe" ELSE "listdir"]
             ELSE IF f.body = topdown
                  THEN Norm(Append(rest, [f EXCEPT !.body = ~topdown, !.i = 1]), topdown)
                  ELSE Norm(Advance(rest), topdown)

\* A scanner whose loop body is always gc_locks' (what list_locks' is
\* not).
NeverListing(p) == FALSE

\* The scanner runs list_locks' loop body, not gc_locks'.
listing(p) == inv[p].list

\* Every walk taken top-down (what gc_locks' is not).
AlwaysTopDown(p) == TRUE

\* list_locks walks top-down, gc_locks bottom-up.
topdown(p) == inv[p].list

\* The walk goes on from st; at its end list_locks / gc_locks return True.
Continue(p, st) ==
    LET n == Norm(st, topdown(p))
    IN  /\ stack' = [stack EXCEPT ![p] = n.stack]
        /\ pc' = [pc EXCEPT ![p] = IF n.pc = "return" THEN "returned" ELSE n.pc]
        /\ ok' = [ok EXCEPT ![p] = IF n.pc = "return" THEN TRUE ELSE @]

\* The directory os.walk lists next.
ToList(p) ==
    IF stack[p] = <<>> THEN Root
    ELSE LET f == stack[p][Len(stack[p])] IN Append(f.dirpath, f.dirnames[f.i])

\* The directory the loop body is at, and its lockpath:
\* os.path.join(dirpath, d).
Entry(p) ==
    LET f == stack[p][Len(stack[p])] IN Append(f.dirpath, f.dirnames[f.i])

lockpath(p) ==
    LET f == stack[p][Len(stack[p])]
    IN  join(<<"/">> \o Joined(f.dirpath), <<f.dirnames[f.i]>>)

\* History: whether a lock_and_run process holds the flock of the directory
\* at d, and whether that directory holds no entry but (perhaps) a README.
HeldByLocker(d) ==
    /\ Exists(d)
    /\ \E q \in Holders : fd[q] = [dir |-> d, gen |-> tree[d]]

Bare(d) == Exists(d) /\ \A e \in Children(d) : ~Exists(e)

Seen(d) == [held |-> HeldByLocker(d), bare |-> Bare(d)]

\* os.walk lists a directory: its subdirectories now.  A directory that is
\* gone is passed over.
ListDir(p) ==
    /\ pc[p] = "listdir"
    /\ LET d == ToList(p)
       IN  IF ~Exists(d)
           THEN Continue(p, Advance(stack[p]))
           ELSE \E names \in Orders({ e[Len(e)] : e \in { c \in Children(d) : Exists(c) } }) :
                    Continue(p, Append(stack[p], Frame(d, names, topdown(p))))
    /\ UNCHANGED <<fsvars, inv, fd, flocked, lvl, wopen, spawned, out, err, status,
                   seen, since>>

\* x = os.open(lockpath, os.O_RDONLY).  When the directory is gone os.open
\* raises OSError: under Python 3 that is IOError and the except clause of
\* the loop body takes it (list_locks prints the entry, gc_locks passes on);
\* under Python 2 it is not, and it ends the walk in main's handler.
ScanOpen(p) ==
    /\ pc[p] = "probe"
    /\ LET x == Lookup(lockpath(p))
       IN  IF x # NoFd
           THEN /\ fd' = [fd EXCEPT ![p] = x]
                /\ pc' = [pc EXCEPT ![p] = "sflock"]
                /\ UNCHANGED <<ok, stack>>
           ELSE /\ \/ IF listing(p)
                      THEN /\ pc' = [pc EXCEPT ![p] = "report"]
                           /\ UNCHANGED <<ok, stack>>
                      ELSE Continue(p, Advance(stack[p]))
                   \/ /\ pc' = [pc EXCEPT ![p] = "except"]
                      /\ UNCHANGED <<ok, stack>>
                /\ UNCHANGED fd
    /\ UNCHANGED <<fsvars, inv, flocked, lvl, wopen, spawned, out, err, status,
                   seen, since>>

\* fcntl.flock(x, LOCK_EX | LOCK_NB): on IOError list_locks prints the
\* entry and gc_locks passes on.  Neither closes x, ever: the descriptor
\* is not used again and, holding no flock, weighs on no one until exit
\* closes it, so the state forgets it here.
ScanFlock(p) ==
    /\ pc[p] = "sflock"
    /\ IF Contended(p)
       THEN /\ IF listing(p)
               THEN /\ pc' = [pc EXCEPT ![p] = "report"]
                    /\ seen' = [seen EXCEPT ![p] = Seen(Entry(p))]
                    /\ UNCHANGED <<ok, stack>>
               ELSE /\ Continue(p, Advance(stack[p]))
                    /\ UNCHANGED seen
            /\ fd' = [fd EXCEPT ![p] = NoFd]
            /\ UNCHANGED flocked
       ELSE /\ flocked' = [flocked EXCEPT ![p] = TRUE]
            /\ pc' = [pc EXCEPT ![p] = IF listing(p) THEN "unlock" ELSE "remove"]
            /\ seen' = [seen EXCEPT ![p] = IF listing(p) THEN NoSeen ELSE Seen(Entry(p))]
            /\ UNCHANGED <<ok, stack, fd>>
    /\ UNCHANGED <<fsvars, inv, lvl, wopen, spawned, out, err, status, since>>

\* list_locks: print("%s%s" % (filesystem, readme_comment(...)))
Report(p) ==
    /\ pc[p] = "report"
    /\ out' = [out EXCEPT ![p] =
                 Append(@, Line(relpath(lockpath(p), LOCKDIR),
                                readme_comment(readme_for(lockpath(p)), <<" # ">>)))]
    /\ Continue(p, Advance(stack[p]))
    /\ seen' = [seen EXCEPT ![p] = NoSeen]
    /\ UNCHANGED <<fsvars, inv, fd, flocked, lvl, wopen, spawned, err, status, since>>

\* gc_locks: os.remove(readme_for(lockpath)), OSError ignored
RemoveReadme(p) ==
    /\ pc[p] = "remove"
    /\ readme' = [readme EXCEPT ![Entry(p)] = NoFile]
    /\ wopen' = [q \in Procs |-> wopen[q] /\ lockdir(q) # Entry(p)]
    /\ pc' = [pc EXCEPT ![p] = "rmdir"]
    /\ UNCHANGED <<tree, inv, fd, flocked, ok, lvl, stack, spawned, out, err, status,
                   seen, since>>

\* gc_locks: os.rmdir(lockpath), any error ignored: the directory the path
\* names now goes if it is empty.
Rmdir(p) ==
    /\ pc[p] = "rmdir"
    /\ tree' = IF Exists(Entry(p)) /\ Empty(Entry(p))
               THEN [tree EXCEPT ![Entry(p)] = 0]
               ELSE tree
    /\ pc' = [pc EXCEPT ![p] = "unlock"]
    /\ seen' = [seen EXCEPT ![p] = NoSeen]
    /\ UNCHANGED <<readme, inv, fd, flocked, ok, lvl, stack, wopen, spawned, out, err,
                   status, since>>

\* A scanner that goes on without LOCK_UN (what the scanners do not do).
GoOnWithoutUnlock(p) ==
    /\ pc[p] = "unlock"
    /\ Continue(p, Advance(stack[p]))
    /\ UNCHANGED <<fsvars, inv, fd, flocked, lvl, wopen, spawned, out, err, status,
                   seen, since>>

\* fcntl.flock(x, LOCK_UN); x stays open, unused (see ScanFlock)
Unlock(p) ==
    /\ pc[p] = "unlock"
    /\ flocked' = [flocked EXCEPT ![p] = FALSE]
    /\ fd' = [fd EXCEPT ![p] = NoFd]
    /\ Continue(p, Advance(stack[p]))
    /\ UNCHANGED <<fsvars, inv, lvl, wopen, spawned, out, err, status, seen, since>>

\* The steps of list_locks and of gc_locks: the walk and the probe are the
\* same code in both, the removal is gc_locks' alone, the report
\* list_locks' alone.
list_locks(p) ==
    \/ ListDir(p)
    \/ ScanOpen(p)
    \/ ScanFlock(p)
    \/ Unlock(p)
    \/ Report(p)

gc_locks(p) ==
    \/ RemoveReadme(p)
    \/ Rmdir(p)

Next ==
    \E p \in Procs :
        \/ Main(p)
        \/ MainExcept(p)
        \/ MainExit(p)
        \/ lock_and_run(p)
        \/ list_locks(p)
        \/ gc_locks(p)

Spec == Init /\ [][Next]_vars

\* ------------------------------------------- runs without gc_locks

MainNoGc(p) == Main(p) /\ ~inv'[p].gc

NextNoGc ==
    \E p \in Procs :
        \/ MainNoGc(p)
        \/ MainExcept(p)
        \/ MainExit(p)
        \/ lock_and_run(p)
        \/ list_locks(p)

SpecNoGc == Init /\ [][NextNoGc]_vars

\* ------------------------------------------------------------ claims

\* p is past a successful flock and has not closed x: it believes it holds
\* the lock of its filesystem.
Holding(p) == IsLocker(p) /\ flocked[p]

\* print_failure lines of p with the message m.
Said(p, m) == \E k \in 1..Len(err[p]) : err[p][k].msg = m

\* C1: mutual exclusion under every interleaving of lock_and_run,
\* list_locks and gc_locks processes: never do two lock_and_run processes
\* both hold the lock of the same resource identifier.
C1_MutualExclusion ==
    \A p, q \in Procs :
        p # q /\ Holding(p) /\ Holding(q) => filesystem(p) # filesystem(q)

\* q's flock probe found the lock held by p, which holds it still.
LostTo(q, p) ==
    /\ p # q
    /\ IsLocker(q) /\ pc[q] = "contention"
    /\ Holding(p) /\ fd[p] = fd[q]
    /\ filesystem(p) = filesystem(q)

\* C2, as stated: with no gc_locks running, of two lock_and_run attempts
\* on one identifier, one holding the lock when the other probes, exactly
\* one succeeds and runs its command: the prober gets contention and has
\* run nothing, and the holder has not ended without running its command.
C2_ExactlyOneRuns ==
    \A p, q \in Procs :
        LostTo(q, p) =>
            /\ ~spawned[q]
            /\ ~(pc[p] = "except" /\ ~spawned[p])

\* C2, amended: with no gc_locks running, (a) two lock_and_run processes
\* never hold the lock of one identifier together; (b) a flock probe made
\* while another lock_and_run holds the identifier gets contention; (c) an
\* attempt that got contention never runs its command, returns False and
\* exits non-zero; (d) an attempt that ended without running its command
\* reported contention or a README write failure, or holds the lock and
\* could not start the command: the holder need not run its command.
C2_AtMostOneRuns ==
    /\ [](\A p, q \in Procs :
            p # q /\ Holding(p) /\ Holding(q) => filesystem(p) # filesystem(q))
    /\ [][\A p, q \in Procs :
            (/\ p # q /\ IsLocker(q) /\ pc[q] = "flock" /\ pc'[q] # "flock"
             /\ Holding(p) /\ filesystem(p) = filesystem(q))
            => pc'[q] = "contention"]_vars
    /\ [](\A q \in Procs :
            (pc[q] = "contention" \/ Said(q, "failed to lock")) =>
                /\ ~spawned[q]
                /\ ~flocked[q]
                /\ pc[q] = "returned" => ~ok[q]
                /\ pc[q] = "exited" => status[q] = 1)
    /\ [](\A p \in Procs :
            IsLocker(p) /\ pc[p] \in {"returned", "except"} /\ ~spawned[p] =>
                \/ Said(p, "failed to lock")
                \/ Said(p, "failed to write README")
                \/ pc[p] = "except" /\ flocked[p])

\* C2's case: an attempt in contention against a holder whose command
\* runs.
C2_Witness ==
    \E p, q \in Procs : LostTo(q, p) /\ spawned[p] /\ pc[p] = "wait"

\* C3: release is total: a lock_and_run call that has returned, True or
\* False, holds no flock and has closed its descriptor; so a flock probe
\* of lock_and_run made when every other process has returned, exited or
\* not begun (nothing overlaps it) acquires the lock.
C3_ReleaseIsTotal ==
    /\ [](\A p \in Procs :
            IsLocker(p) /\ pc[p] = "returned" => ~flocked[p] /\ fd[p] = NoFd)
    /\ [][\A q \in Procs :
            (/\ IsLocker(q) /\ pc[q] = "flock" /\ pc'[q] # "flock"
             /\ \A p \in Procs \ {q} : pc[p] \in {"idle", "returned", "exited"})
            => flocked'[q] /\ pc'[q] # "contention"]_vars

\* C3's case: an attempt returned False after a failed command, and a
\* later attempt on the same identifier holds the lock while the first
\* has not even exited.
C3_Witness ==
    \E p, q \in Procs :
        /\ p # q /\ IsLocker(p) /\ pc[p] = "returned" /\ ~ok[p]
        /\ Said(p, "non-zero exit status")
        /\ Holding(q) /\ filesystem(q) = filesystem(p)

\* C4: gc_locks leaves every held directory untouched: when a
\* lock_and_run process held the lock of the directory at the moment
\* gc_locks probed it, gc_locks' os.remove and os.rmdir remove neither its
\* README nor the directory.
C4_HeldUntouched ==
    [][\A g \in Procs :
        (/\ inv[g].gc /\ pc[g] \in {"remove", "rmdir"} /\ pc'[g] # pc[g]
         /\ seen[g].held)
        => tree' = tree /\ readme' = readme]_vars

\* C5: gc_locks removes a directory if and only if, at the moment of its
\* probe, no lock_and_run process held it and it contained no entry other
\* than its README: so for the rmdir after a probe that succeeded, and a
\* probe that fails finds the directory held or not bare.
C5_RemovesIffUnheldAndBare ==
    [][\A g \in Procs :
        /\ (inv[g].gc /\ pc[g] = "rmdir" /\ pc'[g] # "rmdir") =>
              ((tree[Entry(g)] # 0 /\ tree'[Entry(g)] = 0)
                  <=> (~seen[g].held /\ seen[g].bare))
        /\ (inv[g].gc /\ pc[g] = "sflock" /\ pc'[g] \notin {"sflock", "remove"}) =>
              ~(Bare(Entry(g)) /\ ~HeldByLocker(Entry(g)))]_vars

\* C6: no false "locked" report: list_locks prints an entry only if a
\* lock_and_run process held the lock of that directory at the moment of
\* the probe, whatever list_locks and gc_locks processes run beside it.
C6_NoFalseLocked ==
    \A p \in Procs : inv[p].list /\ pc[p] = "report" => seen[p].held

\* The name list_locks prints the directory of p's filesystem under.
Listed(p) == relpath(lockpath_for(filesystem(p)), LOCKDIR)

\* C7: no false "unlocked" report: a scan of list_locks that has
\* returned has printed every identifier whose lock a lock_and_run process
\* held from before the scan began until now (a process acquires once, so
\* holding at both ends is holding throughout).
C7_NoFalseUnlocked ==
    \A p \in Procs :
        inv[p].list /\ pc[p] = "returned" =>
            \A q \in since[p] :
                Holding(q) => \E k \in 1..Len(out[p]) : out[p][k].text = Listed(q)

\* C8: list_locks never mutates lock state: no step of a list_locks
\* process creates or removes a directory or a README, or touches another
\* process's descriptor or flock, and a list_locks that has returned holds
\* no flock: the directories and their held status are as before the run.
C8_ListNeverMutates ==
    /\ [][\A p \in Procs :
            (/\ inv[p].list \/ inv'[p].list
             /\ pc'[p] # pc[p] \/ stack'[p] # stack[p])
            => /\ tree' = tree /\ readme' = readme
               /\ \A q \in Procs \ {p} : flocked'[q] = flocked[q] /\ fd'[q] = fd[q]]_vars
    /\ [](\A p \in Procs :
            inv[p].list /\ pc[p] \in {"returned", "exited"} => ~flocked[p])

\* C8's case: a list_locks run completed, having found a lock held and
\* printed it, with a README in the tree.
C8_Witness ==
    \E p \in Procs :
        /\ inv[p].list /\ pc[p] = "returned" /\ out[p] # <<>>
        /\ \E d \in Dirs : readme[d] # NoFile

\* An invocation of lock_and_run with an absolute filesystem.
AcquireAbsolute(i) ==
    ~i.list /\ ~i.gc /\ Len(i.args) >= 3 /\ isabs(i.args[2])

\* C9: an absolute resource identifier is rejected before any mutation:
\* the step that parses it ends the process with a non-zero status,
\* creates no directory and no README, opens and probes nothing and spawns
\* nothing; no process ever runs on with such an identifier.
C9_AbsoluteRejected ==
    /\ [][\A p \in Procs :
            (pc[p] = "idle" /\ pc'[p] # "idle" /\ AcquireAbsolute(inv'[p]))
            => /\ pc'[p] = "exited" /\ status'[p] # 0 /\ status'[p] # -1
               /\ tree' = tree /\ readme' = readme
               /\ fd'[p] = NoFd /\ ~flocked'[p] /\ ~spawned'[p]]_vars
    /\ [](\A p \in Procs :
            AcquireAbsolute(inv[p])
            => /\ pc[p] = "exited" /\ status[p] = 1 /\ ~spawned[p]
               /\ Said(p, "invalid filesystem"))

\* C9's case: an absolute identifier was rejected, and the lock tree, not
\* there before, still is not.
C9_Witness ==
    \E p \in Procs :
        /\ AcquireAbsolute(inv[p]) /\ pc[p] = "exited"
        /\ \A d \in Dirs : tree[d] = 0

\* A command line main does not dispatch: list / gc with a positional
\* argument, or neither with no filesystem and command.
Malformed(i) ==
    IF i.list \/ i.gc THEN Len(i.args) # 1 ELSE Len(i.args) < 3

\* An exited process failed: it printed a failure (contention, README
\* write, non-zero exit, invalid filesystem, or an exception such as
\* os.open's), or its command line was malformed.
Failed(p) ==
    \/ err[p] # <<>>
    \/ inv[p] # NoInv /\ Malformed(inv[p])

\* C10, as stated: the exit status is zero on success and non-zero on
\* every failure, malformed invocations included.
C10_ExitStatus ==
    \A p \in Procs :
        pc[p] = "exited" => (status[p] = 0 <=> ~Failed(p))

\* main printed the usage text: neither --list nor --gc, and no
\* filesystem and command.
UsageShown(p) ==
    inv[p] # NoInv /\ ~inv[p].list /\ ~inv[p].gc /\ Len(inv[p].args) < 3

\* C10, amended: the exit status is zero on success and also when main
\* printed the usage text (acquire mode without a filesystem and a
\* command), and it is 1 on every other failure: contention, exception,
\* README write failure, non-zero exit of the command, absolute
\* filesystem, and list / gc with a positional argument.
C10_ExitStatusButUsage ==
    \A p \in Procs :
        pc[p] = "exited" =>
            /\ status[p] \in {0, 1}
            /\ status[p] = 0 <=> (~Failed(p) \/ UsageShown(p))
            /\ UsageShown(p) => out[p] = <<Usage>> /\ err[p] = <<>>

\* C10's case: one process exited 0 on the usage text, another 1 on a
\* command's non-zero exit, a third 1 on a stray positional of --list.
C10_Witness ==
    \E p, q, r \in Procs :
        /\ pc[p] = "exited" /\ UsageShown(p) /\ status[p] = 0
        /\ pc[q] = "exited" /\ Said(q, "non-zero exit status") /\ status[q] = 1
        /\ pc[r] = "exited" /\ inv[r].list /\ Malformed(inv[r]) /\ status[r] = 1

\* C11: the holding period spans the command: whenever the guarded command
\* of a lock_and_run process is running, the process holds the exclusive
\* flock of the directory of its resource (the directory at its lock
\* path), the descriptor still open.
C11_HoldsWhileCommandRuns ==
    \A p \in Procs :
        IsLocker(p) /\ pc[p] = "wait" =>
            /\ flocked[p] /\ fd[p] # NoFd
            /\ fd[p] = Lookup(lockpath_for(filesystem(p)))

\* ------------------------------------- lockpath_for on any filesystem

\* The tokens of the filesystem arguments tried, and the arguments: every
\* string of at most MaxLen tokens in which path components are set apart
\* by "/" (the empty string included).
Tokens == {"a", "b", ".", "..", "/"}

WellFormed(s) ==
    \A k \in 1..(Len(s) - 1) : s[k] = "/" \/ s[k + 1] = "/"

PathIdentifiers ==
    { s \in UNION { [1..n -> Tokens] : n \in 0..MaxLen } : WellFormed(s) }

\* The processes given such an argument: two, to compare their lock paths.
PathProcs == { p \in Procs : p <= 2 }

\* The command line `zflock <filesystem> cmd`.
AcquireOf(f) ==
    [list |-> FALSE, gc |-> FALSE, comment |-> NoComment,
     args |-> << <<"zflock">>, f, <<"cmd">> >>]

InitLockpath ==
    /\ tree = [d \in Dirs |-> 0]
    /\ readme = [d \in Dirs |-> NoFile]
    /\ pc = [p \in Procs |-> "idle"]
    /\ inv \in { i \in [Procs -> { AcquireOf(f) : f \in PathIdentifiers } \cup {NoInv}] :
                   \A p \in Procs : i[p] = NoInv <=> p \notin PathProcs }
    /\ fd = [p \in Procs |-> NoFd]
    /\ flocked = [p \in Procs |-> FALSE]
    /\ ok = [p \in Procs |-> FALSE]
    /\ lvl = [p \in Procs |-> 0]
    /\ stack = [p \in Procs |-> <<>>]
    /\ wopen = [p \in Procs |-> FALSE]
    /\ spawned = [p \in Procs |-> FALSE]
    /\ out = [p \in Procs |-> <<>>]
    /\ err = [p \in Procs |-> <<>>]
    /\ status = [p \in Procs |-> -1]
    /\ seen = [p \in Procs |-> NoSeen]
    /\ since = [p \in Procs |-> {}]

\* lock_and_run up to lockpath = lockpath_for(filesystem): die on an
\* absolute filesystem, else go on (to makedirs) with the lock path.
LockpathFor(p) ==
    /\ p \in PathProcs
    /\ pc[p] = "idle"
    /\ IF lockpath_dies(inv[p].args[2])
       THEN /\ err' = [err EXCEPT ![p] = Append(@, Failure("invalid filesystem", <<>>))]
            /\ Exit(p, 1, inv[p])
            /\ UNCHANGED ok
       ELSE /\ ok' = [ok EXCEPT ![p] = TRUE]
            /\ pc' = [pc EXCEPT ![p] = "makedirs"]
            /\ UNCHANGED <<status, fd, flocked, inv, lvl, stack, seen, since, err>>
    /\ UNCHANGED <<fsvars, wopen, spawned, out>>

NextLockpath == \E p \in Procs : LockpathFor(p)

SpecLockpath == InitLockpath /\ [][NextLockpath]_vars

\* lockpath_for accepted p's filesystem.
Accepted(p) == IsLocker(p) /\ pc[p] = "makedirs"

\* Identifier g is identifier f, a "/" and more.
Below(f, g) ==
    Len(g) > Len(f) + 1 /\ SubSeq(g, 1, Len(f) + 1) = f \o <<"/">>

\* C12: for every identifier lockpath_for accepts, the lock path lies
\* strictly inside the lock-tree root (neither the root nor outside it),
\* distinct identifiers map to distinct lock directories, and identifier
\* a/b resolves under the resolved path of a.
C12_LockpathInsideAndInjective ==
    \A p, q \in Procs :
        Accepted(p) =>
            /\ IsPrefix(Root, lockdir(p)) /\ lockdir(p) # Root
            /\ (Accepted(q) /\ filesystem(q) # filesystem(p))
                   => lockdir(q) # lockdir(p)
            /\ (Accepted(q) /\ Below(filesystem(p), filesystem(q)))
                   => IsPrefix(lockdir(p), lockdir(q))

\* C13: lock_and_run closes the handle on every exit path after a
\* successful open: wherever it has left, by return or by an exception
\* (subprocess.call raising), the descriptor is closed and the flock gone.
C13_ClosedOnEveryExitPath ==
    \A p \in Procs :
        IsLocker(p) /\ pc[p] \in {"returned", "except"} =>
            fd[p] = NoFd /\ ~flocked[p]

\* C14: when the README write fails after the flock, lock_and_run never
\* runs the command, closes the handle and returns False (exit status 1);
\* without --comment no README is opened or written, and the step after
\* the flock is subprocess.call.
C14_AnnotationFailure ==
    /\ [](\A p \in Procs :
            Said(p, "failed to write README") =>
                /\ ~spawned[p] /\ ~flocked[p] /\ fd[p] = NoFd
                /\ pc[p] \in {"returned", "exited"}
                /\ pc[p] = "returned" => ~ok[p] /\ inv[p].comment # NoComment
                /\ pc[p] = "exited" => status[p] = 1)
    /\ [](\A p \in Procs :
            IsLocker(p) /\ inv[p].comment = NoComment =>
                pc[p] \notin {"readme", "write"} /\ ~wopen[p])
    /\ [][\A p \in Procs :
            (/\ IsLocker(p) /\ inv[p].comment = NoComment
             /\ pc[p] = "flock" /\ flocked'[p])
            => pc'[p] = "call" /\ tree' = tree /\ readme' = readme]_vars

\* C14's case: one attempt returned after its README write failed, having
\* run nothing, and an attempt without comment runs its command.
C14_Witness ==
    \E p, q \in Procs :
        /\ IsLocker(p) /\ pc[p] = "returned" /\ Said(p, "failed to write README")
        /\ ~spawned[p]
        /\ IsLocker(q) /\ inv[q].comment = NoComment /\ pc[q] = "wait"

\* C15: the annotation of a held directory is the current holder's: when
\* a lock_and_run process holds the flock of the directory at its lock
\* path and is past its own annotation step, the comment read from that
\* directory's README is the comment that holder supplied (none if it
\* supplied none).
C15_AnnotationIsHolders ==
    \A p \in Procs :
        (/\ Holding(p) /\ pc[p] \in {"call", "wait"}
         /\ fd[p] = Lookup(lockpath_for(filesystem(p))))
        => readme_comment(readme_for(lockpath_for(filesystem(p))), <<>>)
               = inv[p].comment

\* C16: list_locks skips a directory the walk enumerated but os.open
\* cannot open: the entry is not reported and the scan goes on to the
\* next entry (or returns), it does not abort.
C16_OpenFailureSkipped ==
    [][\A p \in Procs :
        (/\ inv[p].list /\ pc[p] = "probe" /\ pc'[p] # "probe"
         /\ Lookup(lockpath(p)) = NoFd)
        => pc'[p] \notin {"report", "except"}]_vars

\* A process inside list_locks or gc_locks (or back in main from it).
Scanner(p) ==
    (inv[p].list \/ inv[p].gc) /\ pc[p] \notin {"idle", "exited"}

\* C17: the scanner never keeps a probe lock: a scanner holds a flock only
\* between a successful probe and the LOCK_UN of the same loop body (so
\* at most one, and none when it probes the next directory or has
\* returned); gc_locks reaches LOCK_UN whatever os.remove and os.rmdir did;
\* and the flock goes by that explicit LOCK_UN, not by exit.
C17_NoProbeLockKept ==
    /\ [](\A p \in Procs :
            Scanner(p) /\ flocked[p] =>
                pc[p] \in {"unlock", "remove", "rmdir"} /\ fd[p] # NoFd)
    /\ [][\A p \in Procs :
            /\ (Scanner(p) /\ pc[p] = "remove" /\ pc'[p] # "remove") => pc'[p] = "rmdir"
            /\ (Scanner(p) /\ pc[p] = "rmdir" /\ pc'[p] # "rmdir") => pc'[p] = "unlock"
            /\ (Scanner(p) /\ flocked[p] /\ ~flocked'[p]) => pc[p] = "unlock"]_vars

\* C17's case: gc_locks deleted the directory it holds the probe lock of,
\* and is about to release the lock.
C17_Witness ==
    \E p \in Procs :
        /\ inv[p].gc /\ pc[p] = "unlock" /\ flocked[p]
        /\ ~Exists(Entry(p))

\* ------------------------------- gc_locks with no concurrent activity

\* No process other than p is running gc_locks (begun and not exited).
NoOtherGc(p) ==
    \A g \in Procs \ {p} : ~(inv[g].gc /\ pc[g] \notin {"idle", "exited"})

\* From the beginning of a gc_locks run to its exit no other process takes
\* a step (the others stay where they are, holding what they hold).
NextGcAlone ==
    \E p \in Procs :
        \/ NoOtherGc(p) /\ Main(p)
        \/ NoOtherGc(p) /\ MainExcept(p)
        \/ NoOtherGc(p) /\ MainExit(p)
        \/ NoOtherGc(p) /\ Mkdir(p)
        \/ NoOtherGc(p) /\ Open(p)
        \/ NoOtherGc(p) /\ Flock(p)
        \/ NoOtherGc(p) /\ Contention(p)
        \/ NoOtherGc(p) /\ OpenReadme(p)
        \/ NoOtherGc(p) /\ WriteReadme(p)
        \/ NoOtherGc(p) /\ Call(p)
        \/ NoOtherGc(p) /\ Wait(p)
        \/ NoOtherGc(p) /\ ListDir(p)
        \/ NoOtherGc(p) /\ ScanOpen(p)
        \/ NoOtherGc(p) /\ ScanFlock(p)
        \/ NoOtherGc(p) /\ Unlock(p)
        \/ NoOtherGc(p) /\ Report(p)
        \/ NoOtherGc(p) /\ RemoveReadme(p)
        \/ NoOtherGc(p) /\ Rmdir(p)

SpecGcAlone == Init /\ [][NextGcAlone]_vars

\* The directories at and below d.
Subtree(d) == { e \in Dirs : IsPrefix(d, e) }

\* Some open file description holds the flock of the directory at d.
Held(d) ==
    /\ Exists(d)
    /\ \E q \in Procs : flocked[q] /\ fd[q] = [dir |-> d, gen |-> tree[d]]

\* C18: gc_locks processes children before parents: with no concurrent
\* activity, when a gc_locks pass has returned, every directory below the
\* lock-tree root that is still there has a held directory in its
\* subtree: a whole chain of stale nested directories goes in one pass.
C18_OnePassRemovesStaleChains ==
    \A g \in Procs :
        inv[g].gc /\ pc[g] = "returned" =>
            \A d \in Dirs \ {Root} :
                Exists(d) => \E e \in Subtree(d) : Held(e)

\* C18's case: a lock_and_run on a/b ran its command and returned, and
\* the gc_locks pass that followed has returned with nothing left below
\* the root: a/b and a went in the one pass.
C18_Witness ==
    \E g, q \in Procs :
        /\ inv[g].gc /\ pc[g] = "returned"
        /\ IsLocker(q) /\ pc[q] = "returned" /\ spawned[q]
        /\ Len(lockdir(q)) = Len(Root) + 2
        /\ \A d \in Dirs \ {Root} : ~Exists(d)

\* C19: scanner probes do not disturb acquirers: a flock probe of
\* lock_and_run meets contention only when another lock_and_run process
\* holds the lock of the same identifier, whatever list_locks and gc_locks
\* processes are probing the directory.
C19_ProbesDoNotDisturb ==
    [][\A q \in Procs :
        (IsLocker(q) /\ pc[q] = "flock" /\ pc'[q] = "contention")
        => \E p \in Procs \ {q} :
               Holding(p) /\ filesystem(p) = filesystem(q)]_vars

\* Process g takes gc_locks' step from pc at to pc next on directory d,
\* holding the probe lock.
GcStepOn(g, d, at, next) ==
    /\ inv[g].gc /\ pc[g] = at /\ pc'[g] = next
    /\ flocked[g] /\ Entry(g) = d

\* C20: a lock directory is never deleted except by gc_locks after a
\* successful probe: a directory goes only by the os.rmdir, and a README
\* only by the os.remove, of a gc_locks process holding its probe lock, in
\* the loop body for that directory; the lock-tree root never goes; a
\* directory that is there is never replaced; and makedirs passes over a
\* directory that is there without error and without changing anything.
C20_OnlyGcDeletes ==
    /\ [][\A d \in Dirs :
            /\ tree[d] # 0 => tree'[d] \in {tree[d], 0}
            /\ (tree[d] # 0 /\ tree'[d] = 0) =>
                  d # Root /\ \E g \in Procs : GcStepOn(g, d, "rmdir", "unlock")
            /\ (readme[d] # NoFile /\ readme'[d] = NoFile) =>
                  \E g \in Procs : GcStepOn(g, d, "remove", "rmdir")]_vars
    /\ [][\A p \in Procs :
            (/\ IsLocker(p) /\ pc[p] = "makedirs"
             /\ lvl'[p] # lvl[p] \/ pc'[p] # pc[p]
             /\ Exists(SubSeq(lockdir(p), 1, lvl[p])))
            => /\ tree' = tree /\ readme' = readme
               /\ pc'[p] \in {"makedirs", "open"} /\ ok'[p] /\ err'[p] = err[p]]_vars

\* C20's case: gc_locks has just deleted a directory, while a
\* lock_and_run is through makedirs on a lock directory that is there.
C20_Witness ==
    \E g, q \in Procs :
        /\ inv[g].gc /\ pc[g] = "unlock" /\ ~Exists(Entry(g))
        /\ Exists(Root)
        /\ IsLocker(q) /\ pc[q] = "open" /\ Exists(lockdir(q))

=============================================================================
